---- MODULE Spec2Model ----
(***************************************************************************)
(* Model of pychado.io.iobase.ImportClient: the upsert / reconciliation    *)
(* engine of chado-tools.  The database session is a record of tables,     *)
(* each a set of rows; a row carries a surrogate id standing for the       *)
(* identity of the mapped Python object.  A reconciliation pass over one   *)
(* parent feature is the forward calls (the _handle_ methods), one per     *)
(* candidate, followed by one reverse call (a _delete_ method).            *)
(***************************************************************************)
EXTENDS Integers, Sequences, FiniteSets, TLC

VARIABLES
    tables,            \* the session: table name -> set of rows
    pc,                \* "idle" | "forward" | "done": position of the caller in a pass
    kind,              \* the table the running pass reconciles
    mode,              \* what the caller hands to the reverse call: "new" | "returned"
    existing_entries,  \* ids of the rows loaded at the start of the pass, in list order
    new_entries,       \* the candidate objects of the pass, in list order
    orig_entries,      \* the candidates as they were built (before any call)
    nxt,               \* index of the next candidate the forward pass handles
    returned,          \* ids returned by the forward calls, in call order
    deleted_entries,   \* ids returned by the last reverse call
    pre,               \* the reconciled table as it was when the pass started
    printed,           \* audit lines emitted since the pass started (by the last call outside a pass)
    built,             \* candidate objects built and _load_ calls made so far
    limit,             \* how many of these the behaviour may make
    op,                \* the last call outside a pass: method, argument, outcome, returned id
    marked,            \* ids of the features _mark_feature_as_obsolete has flagged
    diff,              \* a call of an update_ method: its arguments and, once made, its results
    txn,               \* the transaction of the session: its state and the rows committed
    quiet,             \* the same calls made by a client with verbose = False, in step
    repeat,            \* whether the running pass repeats the pass before it, and that pass's mode
    writers,           \* two clients inside _handle_feature: position and local variables of each
    access             \* a call of check_access: its arguments and, once made, its result

vars == <<tables, pc, kind, mode, existing_entries, new_entries, orig_entries,
          nxt, returned, deleted_entries, pre, printed, built, limit, op, marked, diff,
          txn, quiet, repeat, writers, access>>

\* what only the specifications of their own touch
sidevars == <<writers, access>>

\* no pass is being repeated
NoRepeat == [on |-> FALSE, mode |-> "new"]

\* no client is inside _handle_feature
NoWriters == <<>>

\* check_access has not been called
NoAccess == [done |-> FALSE]

\* what a call outside a pass leaves alone
corevars == <<pc, kind, mode, existing_entries, new_entries, orig_entries,
              nxt, returned, deleted_entries, pre, limit, diff, quiet, repeat>>

passvars == <<corevars, sidevars>>

----------------------------------------------------------------------------
(* Bounds and domains *)

MaxNew == 3        \* candidate objects built and _load_ calls made in one behaviour
MaxEngineNew == 2  \* the same, where every method of the client may be called
MaxDiff == 2       \* attributes in which the arguments of an update_ method differ from the base record
MaxCalls == 3      \* invocations of the command line in one behaviour

TypeIds == {"t1", "t2"}
Values == {"A", "B"}
Ranks == {0, 1}
Modes == {"new", "returned"}

----------------------------------------------------------------------------
(* Generic helpers *)

Max(a, b) == IF a >= b THEN a ELSE b

Range(s) == {s[i] : i \in DOMAIN s}

SeqsUpTo(S, n) == UNION {[1..k -> S] : k \in 0..n}

Perms(S) == {s \in [1..Cardinality(S) -> S] : Range(s) = S}

Ids(T) == {r.id : r \in T}

Row(T, id) == CHOOSE r \in T : r.id = id

\* the mapped objects behind a list of ids, in list order
Rows(T, ids) == [i \in DOMAIN ids |-> Row(T, ids[i])]

\* n fresh surrogate ids, none used by a row of T
FreshIds(T, n) ==
    LET top == IF T = {} THEN 0 ELSE CHOOSE m \in Ids(T) : \A k \in Ids(T) : k <= m
    IN  [i \in 1..n |-> top + i]

WithIds(cands, ids) == [i \in DOMAIN cands |-> [cands[i] EXCEPT !.id = ids[i]]]

\* an add without the flush: later queries do not see the object
add_without_flush(T, obj) == T

\* IOClient.add_and_flush: the object becomes a row visible to later queries
\* a flush that commits
session_commit(committed, tabs) == tabs

\* session.flush(): the pending rows go to the database inside the open
\* transaction; what is committed stays as it was
session_flush(committed, tabs) == committed

add_and_flush(T, obj) == T \cup {obj}

----------------------------------------------------------------------------
(* featureprop *)

PropCandidates == [id : {0}, type_id : TypeIds, rank : Ranks, value : Values]

\* a rank allocator that forgets the candidate's own rank
AdjustRankNoMax(new_rank, matching_rank) == matching_rank + 1

\* line 273: new_entry.rank = max(new_entry.rank, matching_entry.rank+1)
AdjustRank(new_rank, matching_rank) == Max(new_rank, matching_rank + 1)

\* a loop that takes an entry of the same rank for the same property
RECURSIVE ScanFeaturepropByRank(_, _, _, _)
ScanFeaturepropByRank(matching_entries, i, value, rank) ==
    IF i > Len(matching_entries) THEN [found |-> 0, rank |-> rank]
    ELSE IF matching_entries[i].rank = rank
         THEN [found |-> matching_entries[i].id, rank |-> rank]
         ELSE ScanFeaturepropByRank(matching_entries, i + 1, value,
                                    AdjustRank(rank, matching_entries[i].rank))

\* the loop of _handle_featureprop over matching_entries, from index i on:
\* found is the id of the entry returned from inside the loop (0: the loop ran
\* to its end, the else branch inserts), rank the candidate's rank by then
RECURSIVE ScanFeatureprop(_, _, _, _)
ScanFeatureprop(matching_entries, i, value, rank) ==
    IF i > Len(matching_entries) THEN [found |-> 0, rank |-> rank]
    ELSE IF matching_entries[i].value = value
         THEN [found |-> matching_entries[i].id, rank |-> rank]
         ELSE ScanFeatureprop(matching_entries, i + 1, value,
                              AdjustRank(rank, matching_entries[i].rank))

FeaturepropMatching(existing, new_entry) ==
    SelectSeq(existing, LAMBDA e : e.type_id = new_entry.type_id)

\* _handle_featureprop: [table, entry (the candidate object afterwards), ret, lines]
HandleFeaturepropResult(T, new_entry, existing) ==
    LET scan == ScanFeatureprop(FeaturepropMatching(existing, new_entry), 1,
                                new_entry.value, new_entry.rank)
        entry == [new_entry EXCEPT !.rank = scan.rank]
    IN  IF scan.found # 0
        THEN [table |-> T, entry |-> entry, ret |-> scan.found, lines |-> <<>>]
        ELSE [table |-> add_and_flush(T, entry), entry |-> entry, ret |-> entry.id,
              lines |-> <<"Inserted">>]

\* a reverse test that forgets the rank
FeaturepropSignatureTypeOnly(e) == <<e.type_id>>

\* the test of _delete_featureprop: the candidates sharing type_id and rank
FeaturepropSignature(e) == <<e.type_id, e.rank>>

----------------------------------------------------------------------------
(* The property differ *)

\* utils.copy_attribute: copies the attribute if the values differ, and says so
copy_attribute(existing_entry, new_entry, attribute) ==
    IF existing_entry[attribute] # new_entry[attribute]
    THEN [entry |-> [existing_entry EXCEPT ![attribute] = new_entry[attribute]],
          copied |-> TRUE]
    ELSE [entry |-> existing_entry, copied |-> FALSE]

\* the loop of every update_ method: copy_attribute over the attribute list
RECURSIVE CopyAttributes(_, _, _, _, _)
CopyAttributes(attributes, i, existing_entry, new_entry, updated) ==
    IF i > Len(attributes) THEN [entry |-> existing_entry, updated |-> updated]
    ELSE LET c == copy_attribute(existing_entry, new_entry, attributes[i])
         IN  CopyAttributes(attributes, i + 1, c.entry, new_entry,
                            updated \/ c.copied)

PubAttributes ==
    <<"title", "volume", "volumetitle", "series_name", "issue", "pyear", "pages",
      "miniref", "publisher", "pubplace", "is_obsolete">>

FeatureAttributes ==
    <<"name", "residues", "seqlen", "md5checksum", "is_analysis", "is_obsolete">>

\* an attribute list without the strand
FeaturelocAttributesNoStrand == <<"fmin", "fmax", "phase">>

FeaturelocAttributes == <<"fmin", "fmax", "strand", "phase">>

\* an attribute list with nothing to copy
FeatureDbxrefAttributesNone == <<>>

FeatureDbxrefAttributes == <<"is_current">>

FeatureRelationshipAttributes == <<"value">>

SynonymAttributes == <<"synonym_sgml">>

\* an attribute list that lost its last entry
FeatureSynonymAttributesShort == <<"is_internal">>

FeatureSynonymAttributes == <<"is_internal", "is_current">>

update_pub_properties(existing_entry, new_entry) ==
    CopyAttributes(PubAttributes, 1, existing_entry, new_entry, FALSE)

update_feature_properties(existing_entry, new_entry) ==
    CopyAttributes(FeatureAttributes, 1, existing_entry, new_entry, FALSE)

update_featureloc_properties(existing_entry, new_entry) ==
    CopyAttributes(FeaturelocAttributes, 1, existing_entry, new_entry, FALSE)

update_feature_dbxref_properties(existing_entry, new_entry) ==
    CopyAttributes(FeatureDbxrefAttributes, 1, existing_entry, new_entry, FALSE)

update_feature_relationship_properties(existing_entry, new_entry) ==
    CopyAttributes(FeatureRelationshipAttributes, 1, existing_entry, new_entry, FALSE)

update_synonym_properties(existing_entry, new_entry) ==
    CopyAttributes(SynonymAttributes, 1, existing_entry, new_entry, FALSE)

update_feature_synonym_properties(existing_entry, new_entry) ==
    CopyAttributes(FeatureSynonymAttributes, 1, existing_entry, new_entry, FALSE)

----------------------------------------------------------------------------
(* The join tables of a feature *)

DbxrefIds == {"d1", "d2"}
CvtermIds == {"c1", "c2"}
PubIds == {"p1", "p2"}
ObjectIds == {1, 2}         \* feature ids
SynonymIds == {"s1", "s2"}

FeatureDbxrefCandidates == [id : {0}, dbxref_id : DbxrefIds, is_current : BOOLEAN]

FeatureCvtermCandidates ==
    {c \in [id : {0}, cvterm_id : CvtermIds, pub_id : PubIds, rank : Ranks] :
        c.cvterm_id = "c2" => (c.pub_id = "p1" /\ c.rank = 0)}

FeatureRelationshipCandidates ==
    {c \in [id : {0}, type_id : {"t1"}, object_id : ObjectIds, rank : Ranks,
            value : Values] :
        c.object_id = 2 => (c.rank = 0 /\ c.value = "A")}

FeatureSynonymCandidates ==
    {c \in [id : {0}, synonym_id : SynonymIds, pub_id : PubIds,
            is_internal : BOOLEAN, is_current : BOOLEAN] :
        c.synonym_id = "s2" => (c.pub_id = "p1" /\ ~c.is_internal /\ c.is_current)}

FeaturePubCandidates == [id : {0}, pub_id : PubIds \cup {"p3"}]

\* the keyword arguments of filter_objects in the _handle_ methods
FeatureDbxrefForwardKey(e) == <<e.dbxref_id>>
FeatureCvtermForwardKey(e) == <<e.cvterm_id>>
FeatureRelationshipForwardKey(e) == <<e.type_id, e.object_id>>
FeatureSynonymForwardKey(e) == <<e.synonym_id>>
FeaturePubForwardKey(e) == <<e.pub_id>>

ForwardKey(k, e) ==
    CASE k = "feature_dbxref" -> FeatureDbxrefForwardKey(e)
      [] k = "feature_cvterm" -> FeatureCvtermForwardKey(e)
      [] k = "feature_relationship" -> FeatureRelationshipForwardKey(e)
      [] k = "feature_synonym" -> FeatureSynonymForwardKey(e)
      [] k = "feature_pub" -> FeaturePubForwardKey(e)

\* the keyword arguments of filter_objects in the _delete_ methods
FeatureDbxrefSignature(e) == <<e.dbxref_id>>
FeatureCvtermSignatureTermOnly(e) == <<e.cvterm_id>>
FeatureCvtermSignature(e) == <<e.cvterm_id, e.pub_id, e.rank>>
FeatureRelationshipSignature(e) == <<e.type_id, e.object_id, e.rank>>
FeatureSynonymSignature(e) == <<e.synonym_id, e.pub_id>>
FeaturePubSignature(e) == <<e.pub_id>>

\* a _handle_ method that overwrites the first matching entry with the candidate
UpdateMatchingOverwrites(k, matching_entry, new_entry) ==
    [entry |-> [new_entry EXCEPT !.id = matching_entry.id],
     updated |-> [new_entry EXCEPT !.id = matching_entry.id] # matching_entry]

\* what a _handle_ method does with the first matching entry
UpdateMatching(k, matching_entry, new_entry) ==
    CASE k = "feature_dbxref" ->
            update_feature_dbxref_properties(matching_entry, new_entry)
      [] k = "feature_relationship" ->
            update_feature_relationship_properties(matching_entry, new_entry)
      [] k = "feature_synonym" ->
            update_feature_synonym_properties(matching_entry, new_entry)
      [] k \in {"feature_cvterm", "feature_pub"} ->
            [entry |-> matching_entry, updated |-> FALSE]

\* a filter that returns the matching entries last first
JoinMatchingReversed(k, existing, new_entry) ==
    LET m == SelectSeq(existing, LAMBDA e : ForwardKey(k, e) = ForwardKey(k, new_entry))
    IN  [i \in DOMAIN m |-> m[Len(m) + 1 - i]]

JoinMatching(k, existing, new_entry) ==
    SelectSeq(existing, LAMBDA e : ForwardKey(k, e) = ForwardKey(k, new_entry))

\* _handle_feature_dbxref, _handle_feature_cvterm, _handle_feature_relationship,
\* _handle_feature_synonym, _handle_feature_pub: [table, ret, lines]
HandleJoinResult(k, T, new_entry, existing) ==
    LET matching_entries == JoinMatching(k, existing, new_entry)
    IN  IF Len(matching_entries) > 0
        THEN LET matching_entry == matching_entries[1]
                 upd == UpdateMatching(k, matching_entry, new_entry)
             IN  [table |-> (T \ {matching_entry}) \cup {upd.entry},
                  ret |-> matching_entry.id,
                  lines |-> IF upd.updated THEN <<"Updated">> ELSE <<>>]
        ELSE [table |-> add_and_flush(T, new_entry), ret |-> new_entry.id,
              lines |-> <<"Inserted">>]

----------------------------------------------------------------------------
(* The pass *)

Signature(k, e) ==
    CASE k = "featureprop" -> FeaturepropSignature(e)
      [] k = "feature_dbxref" -> FeatureDbxrefSignature(e)
      [] k = "feature_cvterm" -> FeatureCvtermSignature(e)
      [] k = "feature_relationship" -> FeatureRelationshipSignature(e)
      [] k = "feature_synonym" -> FeatureSynonymSignature(e)
      [] k = "feature_pub" -> FeaturePubSignature(e)

Candidates(k) ==
    CASE k = "featureprop" -> PropCandidates
      [] k = "feature_dbxref" -> FeatureDbxrefCandidates
      [] k = "feature_cvterm" -> FeatureCvtermCandidates
      [] k = "feature_relationship" -> FeatureRelationshipCandidates
      [] k = "feature_synonym" -> FeatureSynonymCandidates
      [] k = "feature_pub" -> FeaturePubCandidates

\* the list the caller hands to the reverse call as new_entries: the candidate
\* objects it built, or the entries the forward calls returned
NewEntriesArg(m) ==
    IF m = "new" THEN new_entries ELSE Rows(tables[kind], returned)

StartPass(k) ==
    /\ pc \in {"idle", "done"}
    /\ kind \in {"none", k}
    /\ \E cands \in SeqsUpTo(Candidates(k), limit - built) :
       \E order \in Perms(Ids(tables[k])) :
          LET objs == WithIds(cands, FreshIds(tables[k], Len(cands)))
          IN  /\ new_entries' = objs
              /\ orig_entries' = objs
              /\ existing_entries' = order
              /\ built' = built + Len(cands)
    /\ kind' = k
    /\ pc' = "forward"
    /\ nxt' = 1
    /\ returned' = <<>>
    /\ deleted_entries' = <<>>
    /\ pre' = tables[k]
    /\ printed' = <<>>
    /\ repeat' = NoRepeat
    /\ UNCHANGED <<tables, mode, limit, op, marked, diff, txn, quiet, sidevars>>

_handle_featureprop ==
    /\ pc = "forward"
    /\ kind = "featureprop"
    /\ nxt <= Len(new_entries)
    /\ LET res == HandleFeaturepropResult(tables.featureprop, new_entries[nxt],
                                          Rows(tables.featureprop, existing_entries))
       IN  /\ tables' = [tables EXCEPT !.featureprop = res.table]
           /\ new_entries' = [new_entries EXCEPT ![nxt] = res.entry]
           /\ returned' = Append(returned, res.ret)
           /\ printed' = printed \o res.lines
    /\ nxt' = nxt + 1
    /\ txn' = [txn EXCEPT !.committed = session_flush(@, tables')]
    /\ UNCHANGED <<pc, kind, mode, existing_entries, orig_entries, deleted_entries,
                   pre, built, limit, op, marked, diff, quiet,
                   repeat, sidevars>>

\* a reverse loop that deletes whatever the new entries are
DeletedIdsAll(k, T, existing, new) == existing

\* a reverse loop with its test inverted
DeletedIdsInverted(k, T, existing, new) ==
    SelectSeq(existing,
              LAMBDA id : \E j \in DOMAIN new :
                              Signature(k, new[j]) = Signature(k, Row(T, id)))

\* the loop shared by every _delete_ method: the existing entries no new entry matches
DeletedIds(k, T, existing, new) ==
    SelectSeq(existing,
              LAMBDA id : ~ \E j \in DOMAIN new :
                              Signature(k, new[j]) = Signature(k, Row(T, id)))

\* a session.delete that removes the feature a deleted relationship points to
session_delete_object(tabs, k, ids) ==
    [tabs EXCEPT ![k] = {r \in @ : r.id \notin ids},
                 !.feature = {f \in @ : ~ \E r \in tabs[k] :
                                  /\ r.id \in ids
                                  /\ "object_id" \in DOMAIN r
                                  /\ r.object_id = f.id}]

\* session.delete(existing_entry), for every entry of ids: rows of table k only
session_delete(tabs, k, ids) == [tabs EXCEPT ![k] = {r \in @ : r.id \notin ids}]

\* a reverse loop that prints once for all it deletes
DeleteResultOneLine(k, tabs, existing, new) ==
    LET gone == DeletedIds(k, tabs[k], existing, new)
    IN  [tables |-> session_delete(tabs, k, Range(gone)),
         deleted |-> gone,
         lines |-> IF gone = <<>> THEN <<>> ELSE <<"Deleted">>]

\* a _delete_ method: [tables, deleted, lines]
DeleteResult(k, tabs, existing, new) ==
    LET gone == DeletedIds(k, tabs[k], existing, new)
    IN  [tables |-> session_delete(tabs, k, Range(gone)),
         deleted |-> gone,
         lines |-> [i \in DOMAIN gone |-> "Deleted"]]

\* a _delete_ method called once the forward calls are through
DeletePass(k) ==
    /\ pc = "forward"
    /\ kind = k
    /\ nxt > Len(new_entries)
    /\ \E m \in Modes :
          LET res == DeleteResult(k, tables, existing_entries, NewEntriesArg(m))
          IN  /\ tables' = res.tables
              /\ deleted_entries' = res.deleted
              /\ printed' = printed \o res.lines
              /\ mode' = m
    /\ pc' = "done"
    /\ UNCHANGED <<kind, existing_entries, new_entries, orig_entries, nxt,
                   returned, pre, built, limit, op, marked, diff, txn, quiet,
                   repeat, sidevars>>

\* a _handle_ method of a join table called with the next candidate
HandleJoin(k) ==
    /\ pc = "forward"
    /\ kind = k
    /\ nxt <= Len(new_entries)
    /\ LET res == HandleJoinResult(k, tables[k], new_entries[nxt],
                                   Rows(tables[k], existing_entries))
       IN  /\ tables' = [tables EXCEPT ![k] = res.table]
           /\ returned' = Append(returned, res.ret)
           /\ printed' = printed \o res.lines
    /\ nxt' = nxt + 1
    /\ txn' = [txn EXCEPT !.committed = session_flush(@, tables')]
    /\ UNCHANGED <<pc, kind, mode, existing_entries, new_entries, orig_entries,
                   deleted_entries, pre, built, limit, op, marked, diff, quiet,
                   repeat, sidevars>>

_delete_featureprop == DeletePass("featureprop")

_handle_feature_dbxref == HandleJoin("feature_dbxref")
_delete_feature_dbxref == DeletePass("feature_dbxref")

_handle_feature_cvterm == HandleJoin("feature_cvterm")
_delete_feature_cvterm == DeletePass("feature_cvterm")

_handle_feature_relationship == HandleJoin("feature_relationship")
_delete_feature_relationship == DeletePass("feature_relationship")

_handle_feature_synonym == HandleJoin("feature_synonym")
_delete_feature_synonym == DeletePass("feature_synonym")

_handle_feature_pub == HandleJoin("feature_pub")
_delete_feature_pub == DeletePass("feature_pub")

----------------------------------------------------------------------------
(* The entities looked up in the session: natural keys and upserts *)

Organisms == {[id |-> 1, abbreviation |-> "org1"], [id |-> 2, abbreviation |-> "org2"]}
OrganismNames == {"org1", "org2", "org3"}
Uniquenames == {"u1", "u2"}
PubNames == {"pm1", "pm2"}
TermNames == {"n1", "n2"}
CvNames == {"cv1", "cv2"}

FeatureCandidates ==
    {c \in [id : {0}, organism_id : {1, 2}, type_id : TypeIds, uniquename : Uniquenames,
            name : Values, residues : {"x"}, seqlen : {1}, md5checksum : {"x"},
            is_analysis : {FALSE}, is_obsolete : BOOLEAN] :
        /\ (c.organism_id = 2 \/ c.uniquename = "u2")
              => (c.type_id = "t1" /\ c.name = "A" /\ ~c.is_obsolete)
        /\ ~(c.organism_id = 2 /\ c.uniquename = "u2")}

FeaturelocCandidates ==
    [id : {0}, feature_id : {1, 2}, fmin : {0, 1}, fmax : {2}, strand : {1, -1},
     phase : {0}]

PubCandidates ==
    [id : {0}, uniquename : PubNames, type_id : {"t1"}, title : Values, volume : {"x"},
     volumetitle : {"x"}, series_name : {"x"}, issue : {"x"}, pyear : {"x"},
     pages : {"x"}, miniref : {"x"}, publisher : {"x"}, pubplace : {"x"},
     is_obsolete : BOOLEAN]

SynonymCandidates ==
    [id : {0}, name : {"syn1"}, type_id : {"t1"}, synonym_sgml : Values]

DbCandidates == [id : {0}, name : {"DB1", "DB2"}]

DbxRefCandidates == [id : {0}, db_id : {1}, accession : {"a1", "a2"}]

CvCandidates == [id : {0}, name : CvNames]

CvTermCandidates ==
    [id : {0}, cv_id : {1}, name : TermNames, dbxref_id : {1, 2},
     is_relationshiptype : {0, 1}]

SingleCandidates(k) ==
    CASE k = "feature" -> FeatureCandidates
      [] k = "featureloc" -> FeaturelocCandidates
      [] k = "pub" -> PubCandidates
      [] k = "synonym" -> SynonymCandidates
      [] k = "db" -> DbCandidates
      [] k = "dbxref" -> DbxRefCandidates
      [] k = "cv" -> CvCandidates
      [] k = "cvterm" -> CvTermCandidates

\* the keyword arguments of query_first in the _handle_ methods
NaturalKey(k, e) ==
    CASE k = "feature" -> <<e.organism_id, e.type_id, e.uniquename>>
      [] k = "featureloc" -> <<e.feature_id>>
      [] k = "pub" -> <<e.uniquename, e.type_id>>
      [] k = "synonym" -> <<e.name, e.type_id>>
      [] k = "db" -> <<e.name>>
      [] k = "dbxref" -> <<e.db_id, e.accession>>
      [] k = "cv" -> <<e.name>>
      [] k = "cvterm" -> <<e.cv_id, e.name>>

\* IOClient.query_all with keyword arguments: the rows with the candidate's key
query_all(T, k, new_entry) == {e \in T : NaturalKey(k, e) = NaturalKey(k, new_entry)}

\* a lookup that finds nothing, whatever the table holds
FoundNothing(k, T, new_entry) == {}

\* a lookup in which _handle_cvterm looks for (cv_id, name) first and for the
\* dbxref next
FoundByNameFirst(k, T, new_entry) ==
    IF k = "cvterm" /\ query_all(T, k, new_entry) = {}
    THEN {e \in T : e.dbxref_id = new_entry.dbxref_id}
    ELSE query_all(T, k, new_entry)

\* the rows query_first may return to a _handle_ method (none: the empty set);
\* _handle_cvterm looks for the dbxref first and for (cv_id, name) next
Found(k, T, new_entry) ==
    IF k = "cvterm" /\ {e \in T : e.dbxref_id = new_entry.dbxref_id} # {}
    THEN {e \in T : e.dbxref_id = new_entry.dbxref_id}
    ELSE query_all(T, k, new_entry)

\* what a _handle_ method does with the existing entry
UpdateExisting(k, existing_entry, new_entry) ==
    CASE k = "feature" -> update_feature_properties(existing_entry, new_entry)
      [] k = "featureloc" -> update_featureloc_properties(existing_entry, new_entry)
      [] k = "pub" -> update_pub_properties(existing_entry, new_entry)
      [] k = "synonym" -> update_synonym_properties(existing_entry, new_entry)
      [] k \in {"db", "dbxref", "cv", "cvterm"} ->
            [entry |-> existing_entry, updated |-> FALSE]

FreshId(T) == FreshIds(T, 1)[1]

\* the insert branch of a _handle_ method
InsertResult(k, T, new_entry) ==
    LET obj == [new_entry EXCEPT !.id = FreshId(T)]
    IN  [table |-> add_and_flush(T, obj), outcome |-> "inserted", ret |-> obj.id,
         lines |-> <<"Inserted">>]

\* an existing branch that prints whether or not anything was copied
ExistingResultAlwaysPrints(k, T, new_entry, existing_entry) ==
    LET upd == UpdateExisting(k, existing_entry, new_entry)
    IN  [table |-> (T \ {existing_entry}) \cup {upd.entry},
         outcome |-> IF upd.updated THEN "updated" ELSE "unchanged",
         ret |-> existing_entry.id,
         lines |-> <<"Updated">>]

\* the branch of a _handle_ method that found existing_entry
ExistingResult(k, T, new_entry, existing_entry) ==
    LET upd == UpdateExisting(k, existing_entry, new_entry)
    IN  [table |-> (T \ {existing_entry}) \cup {upd.entry},
         outcome |-> IF upd.updated THEN "updated" ELSE "unchanged",
         ret |-> existing_entry.id,
         lines |-> IF upd.updated THEN <<"Updated">> ELSE <<>>]

\* _handle_db, _handle_dbxref, _handle_cv, _handle_cvterm, _handle_feature,
\* _handle_featureloc, _handle_synonym, _handle_pub, called with a new candidate
Upsert(name, k) ==
    /\ pc \in {"idle", "done"}
    /\ built < limit
    /\ \E new_entry \in SingleCandidates(k) :
       \E res \in IF Found(k, tables[k], new_entry) = {}
                  THEN {InsertResult(k, tables[k], new_entry)}
                  ELSE {ExistingResult(k, tables[k], new_entry, e) :
                            e \in Found(k, tables[k], new_entry)} :
          /\ tables' = [tables EXCEPT ![k] = res.table]
          /\ op' = [name |-> name, arg |-> new_entry, outcome |-> res.outcome,
                    ret |-> res.ret]
          /\ printed' = res.lines
    /\ built' = built + 1
    /\ txn' = [txn EXCEPT !.committed = session_flush(@, tables')]
    /\ UNCHANGED <<passvars, marked>>

_handle_db == Upsert("_handle_db", "db")
_handle_dbxref == Upsert("_handle_dbxref", "dbxref")
_handle_cv == Upsert("_handle_cv", "cv")
_handle_cvterm == Upsert("_handle_cvterm", "cvterm")
_handle_feature == Upsert("_handle_feature", "feature")
_handle_featureloc == Upsert("_handle_featureloc", "featureloc")
_handle_synonym == Upsert("_handle_synonym", "synonym")
_handle_pub == Upsert("_handle_pub", "pub")

\* a _load_ method that returns whatever it found
LoadedNeverRaises(name, call, found, ret) ==
    /\ built < limit
    /\ built' = built + 1
    /\ op' = [name |-> name, arg |-> call, outcome |-> "loaded", ret |-> ret]
    /\ printed' = IF pc = "forward" THEN printed ELSE <<>>
    /\ UNCHANGED <<tables, passvars, marked, txn>>

\* utils.list_to_dict(entries, "name"): the keys of the dictionary
list_to_dict(entries) == {e.name : e \in entries}

\* a _load_ method that read the session and returned or raised, between two
\* calls of a pass or outside a pass; it prints nothing
Loaded(name, call, found, ret) ==
    /\ built < limit
    /\ built' = built + 1
    /\ op' = [name |-> name, arg |-> call,
              outcome |-> IF found THEN "loaded" ELSE "DatabaseError", ret |-> ret]
    /\ printed' = IF pc = "forward" THEN printed ELSE <<>>
    /\ UNCHANGED <<tables, passvars, marked, txn>>

_load_cvterm ==
    \E term \in TermNames :
        LET entries == {e \in tables.cvterm : e.name = term}
        IN  \/ entries = {} /\ Loaded("_load_cvterm", term, FALSE, 0)
            \/ \E cvterm_entry \in entries :
                  Loaded("_load_cvterm", term, TRUE, cvterm_entry.id)

\* the terms asked for are looked up in the dictionary of the vocabulary's terms
_load_cvterms ==
    \E vocabulary \in CvNames : \E terms \in SUBSET TermNames :
    \E relationship \in BOOLEAN :
        LET call == <<vocabulary, terms, relationship>>
            cvs == {c \in tables.cv : c.name = vocabulary}
        IN  \/ cvs = {} /\ Loaded("_load_cvterms", call, FALSE, {})
            \/ \E cv_entry \in cvs :
                  LET cvterm_entries ==
                          {e \in tables.cvterm :
                              /\ e.cv_id = cv_entry.id
                              /\ e.is_relationshiptype = (IF relationship THEN 1 ELSE 0)}
                      cvterm_entries_dict == list_to_dict(cvterm_entries)
                  IN  IF terms \subseteq cvterm_entries_dict
                      THEN Loaded("_load_cvterms", call, TRUE, Ids(cvterm_entries))
                      ELSE Loaded("_load_cvterms", call, FALSE, {})

_load_pub ==
    \E pub_name \in PubNames :
        LET entries == {e \in tables.pub : e.uniquename = pub_name}
        IN  \/ entries = {} /\ Loaded("_load_pub", pub_name, FALSE, 0)
            \/ \E pub_entry \in entries : Loaded("_load_pub", pub_name, TRUE, pub_entry.id)

_load_organism ==
    \E organism_name \in OrganismNames :
        LET entries == {e \in tables.organism : e.abbreviation = organism_name}
        IN  \/ entries = {} /\ Loaded("_load_organism", organism_name, FALSE, 0)
            \/ \E organism_entry \in entries :
                  Loaded("_load_organism", organism_name, TRUE, organism_entry.id)

\* the uniquenames of the organism's features
_load_feature_ids ==
    \E organism_entry \in tables.organism :
        Loaded("_load_feature_ids", organism_entry.id, TRUE,
               {f.uniquename : f \in {g \in tables.feature :
                                         g.organism_id = organism_entry.id}})

\* a marking that sets the flag and prints whatever the flag was
MarkObsoleteUnconditional(feature_entry) ==
    [entry |-> [feature_entry EXCEPT !.is_obsolete = TRUE], outcome |-> "marked",
     lines |-> <<"Marked">>]

\* a marking that flips the flag
MarkObsoleteToggle(feature_entry) ==
    IF ~feature_entry.is_obsolete
    THEN [entry |-> [feature_entry EXCEPT !.is_obsolete = TRUE], outcome |-> "marked",
          lines |-> <<"Marked">>]
    ELSE [entry |-> [feature_entry EXCEPT !.is_obsolete = FALSE],
          outcome |-> "unchanged", lines |-> <<>>]

\* a marking that also takes the residues off the feature
MarkObsoleteDropsResidues(feature_entry) ==
    IF ~feature_entry.is_obsolete
    THEN [entry |-> [feature_entry EXCEPT !.is_obsolete = TRUE, !.residues = ""],
          outcome |-> "marked", lines |-> <<"Marked">>]
    ELSE [entry |-> feature_entry, outcome |-> "unchanged", lines |-> <<>>]

\* lines 559-562 of _mark_feature_as_obsolete, for the feature found
MarkObsolete(feature_entry) ==
    IF ~feature_entry.is_obsolete
    THEN [entry |-> [feature_entry EXCEPT !.is_obsolete = TRUE], outcome |-> "marked",
          lines |-> <<"Marked">>]
    ELSE [entry |-> feature_entry, outcome |-> "unchanged", lines |-> <<>>]

\* _mark_feature_as_obsolete: query_first by organism_id and uniquename; with no
\* such feature the attribute access on None raises AttributeError
_mark_feature_as_obsolete ==
    /\ pc \in {"idle", "done"}
    /\ \E organism_entry \in tables.organism : \E uniquename \in Uniquenames :
          LET found == {f \in tables.feature :
                            /\ f.organism_id = organism_entry.id
                            /\ f.uniquename = uniquename}
              call == <<organism_entry.id, uniquename>>
          IN  \/ /\ found = {}
                 /\ op' = [name |-> "_mark_feature_as_obsolete", arg |-> call,
                           outcome |-> "AttributeError", ret |-> 0]
                 /\ printed' = <<>>
                 /\ UNCHANGED <<tables, marked>>
              \/ \E feature_entry \in found :
                    LET res == MarkObsolete(feature_entry)
                    IN  /\ tables' = [tables EXCEPT !.feature =
                                         (@ \ {feature_entry}) \cup {res.entry}]
                        /\ op' = [name |-> "_mark_feature_as_obsolete", arg |-> call,
                                  outcome |-> res.outcome, ret |-> feature_entry.id]
                        /\ printed' = res.lines
                        /\ marked' = IF res.outcome = "marked"
                                     THEN marked \cup {feature_entry.id} ELSE marked
    /\ UNCHANGED <<passvars, built, txn>>

----------------------------------------------------------------------------
(* Specifications *)

EmptyTables ==
    [featureprop |-> {}, feature_dbxref |-> {}, feature_cvterm |-> {},
     feature_relationship |-> {}, feature_synonym |-> {}, feature_pub |-> {},
     feature |-> {}, featureloc |-> {}, pub |-> {}, synonym |-> {},
     db |-> {}, dbxref |-> {}, cv |-> {}, cvterm |-> {}, organism |-> {}]

NoDiff == [kind |-> "none", done |-> FALSE]

NoQuiet == [tables |-> EmptyTables, new_entries |-> <<>>, returned |-> <<>>,
            deleted_entries |-> <<>>, printed |-> <<>>]

NoOp == [name |-> "none", arg |-> <<>>, outcome |-> "none", ret |-> 0]

InitPassExceptSide ==
    /\ pc = "idle"
    /\ kind = "none"
    /\ op = NoOp
    /\ marked = {}
    /\ mode = "new"
    /\ existing_entries = <<>>
    /\ new_entries = <<>>
    /\ orig_entries = <<>>
    /\ nxt = 1
    /\ returned = <<>>
    /\ deleted_entries = <<>>
    /\ pre = {}
    /\ printed = <<>>
    /\ built = 0
    /\ txn = [state |-> "open", committed |-> tables]
    /\ quiet = NoQuiet
    /\ repeat = NoRepeat

InitPassExceptDiff ==
    /\ InitPassExceptSide
    /\ writers = NoWriters
    /\ access = NoAccess

InitPass ==
    /\ InitPassExceptDiff
    /\ diff = NoDiff

InitProp ==
    /\ tables = EmptyTables
    /\ limit = MaxNew
    /\ InitPass

NextProp ==
    \/ StartPass("featureprop")
    \/ _handle_featureprop
    \/ _delete_featureprop

SpecProp == InitProp /\ [][NextProp]_vars

\* the caller runs the pass again: it builds the same candidates anew and
\* queries the rows the pass before has left
RepeatPass(k) ==
    /\ pc = "done"
    /\ kind = k
    /\ ~ repeat.on
    /\ orig_entries # <<>>
    /\ \E order \in Perms(Ids(tables[k])) :
          LET objs == WithIds(orig_entries, FreshIds(tables[k], Len(orig_entries)))
          IN  /\ new_entries' = objs
              /\ orig_entries' = objs
              /\ existing_entries' = order
    /\ repeat' = [on |-> TRUE, mode |-> mode]
    /\ pc' = "forward"
    /\ nxt' = 1
    /\ returned' = <<>>
    /\ deleted_entries' = <<>>
    /\ pre' = tables[k]
    /\ printed' = <<>>
    /\ UNCHANGED <<tables, kind, mode, built, limit, op, marked, diff, txn, quiet,
                   sidevars>>

\* passes over the properties of a feature, each of which may be run twice
NextRepeat ==
    \/ StartPass("featureprop")
    \/ _handle_featureprop
    \/ _delete_featureprop
    \/ RepeatPass("featureprop")

SpecRepeat == InitProp /\ [][NextRepeat]_vars

\* the passes over the join tables of a feature
NextJoin ==
    \/ StartPass("feature_dbxref")
    \/ _handle_feature_dbxref
    \/ _delete_feature_dbxref
    \/ StartPass("feature_cvterm")
    \/ _handle_feature_cvterm
    \/ _delete_feature_cvterm
    \/ StartPass("feature_relationship")
    \/ _handle_feature_relationship
    \/ _delete_feature_relationship
    \/ StartPass("feature_synonym")
    \/ _handle_feature_synonym
    \/ _delete_feature_synonym
    \/ StartPass("feature_pub")
    \/ _handle_feature_pub
    \/ _delete_feature_pub

SpecJoin == InitProp /\ [][NextJoin]_vars

\* the passes over the properties and over the join tables of a feature
NextPasses ==
    \/ NextProp
    \/ NextJoin

SpecPasses == InitProp /\ [][NextPasses]_vars

\* the caller goes on while no call has raised and the transaction is open
CallerContinues ==
    /\ txn.state = "open"
    /\ op.outcome # "DatabaseError"

\* the caller commits at the end of an import
Commit ==
    /\ CallerContinues
    /\ pc \in {"idle", "done"}
    /\ txn' = [state |-> "committed", committed |-> tables]
    /\ UNCHANGED <<tables, passvars, printed, built, op, marked>>

\* the DatabaseError reaches the caller, which makes no further call; the
\* session is closed with its transaction open, and what was flushed is gone
Discard ==
    /\ txn.state = "open"
    /\ op.outcome = "DatabaseError"
    /\ txn' = [txn EXCEPT !.state = "closed"]
    /\ tables' = txn.committed
    /\ UNCHANGED <<passvars, printed, built, op, marked>>

\* an import in one transaction: passes over the properties of a feature,
\* upserts and lookups of publications
InitTxn ==
    /\ tables = [EmptyTables EXCEPT !.organism = Organisms]
    /\ limit = MaxNew
    /\ InitPass

NextTxn ==
    \/ CallerContinues /\ StartPass("featureprop")
    \/ CallerContinues /\ _handle_featureprop
    \/ CallerContinues /\ _delete_featureprop
    \/ CallerContinues /\ _handle_pub
    \/ CallerContinues /\ _load_pub
    \/ Commit
    \/ Discard

SpecTxn == InitTxn /\ [][NextTxn]_vars

\* utils.VerbosePrinter(verbose).print: the lines written
VerbosePrinter_print(verbose, lines) == IF verbose THEN lines ELSE <<>>

\* _handle_featureprop of a client constructed with verbose
RunHandleFeatureprop(verbose, T, new_entry, existing) ==
    LET res == HandleFeaturepropResult(T, new_entry, existing)
    IN  [table |-> res.table, entry |-> res.entry, ret |-> res.ret,
         printed |-> VerbosePrinter_print(verbose, res.lines)]

\* a _delete_featureprop that deletes only when it can say so
RunDeleteFeaturepropIfVerbose(verbose, tabs, existing, new) ==
    LET res == DeleteResult("featureprop", tabs, existing, new)
    IN  IF verbose
        THEN [tables |-> res.tables, deleted |-> res.deleted, printed |-> res.lines]
        ELSE [tables |-> tabs, deleted |-> <<>>, printed |-> <<>>]

\* _delete_featureprop of a client constructed with verbose
RunDeleteFeatureprop(verbose, tabs, existing, new) ==
    LET res == DeleteResult("featureprop", tabs, existing, new)
    IN  [tables |-> res.tables, deleted |-> res.deleted,
         printed |-> VerbosePrinter_print(verbose, res.lines)]

\* two clients, one verbose and one not, start the same pass on their stores
BothStartPass ==
    /\ pc \in {"idle", "done"}
    /\ \E cands \in SeqsUpTo(PropCandidates, limit - built) :
       \E order \in Perms(Ids(tables.featureprop)) :
          /\ new_entries' = WithIds(cands, FreshIds(tables.featureprop, Len(cands)))
          /\ orig_entries' = new_entries'
          /\ existing_entries' = order
          /\ built' = built + Len(cands)
          /\ quiet' = [quiet EXCEPT
                          !.new_entries =
                              WithIds(cands, FreshIds(quiet.tables.featureprop, Len(cands))),
                          !.returned = <<>>,
                          !.deleted_entries = <<>>,
                          !.printed = <<>>]
    /\ kind' = "featureprop"
    /\ pc' = "forward"
    /\ nxt' = 1
    /\ returned' = <<>>
    /\ deleted_entries' = <<>>
    /\ pre' = tables.featureprop
    /\ printed' = <<>>
    /\ repeat' = NoRepeat
    /\ UNCHANGED <<tables, mode, limit, op, marked, diff, txn, sidevars>>

\* both make the next forward call
BothHandleFeatureprop ==
    /\ pc = "forward"
    /\ nxt <= Len(new_entries)
    /\ LET res == RunHandleFeatureprop(TRUE, tables.featureprop, new_entries[nxt],
                                       Rows(tables.featureprop, existing_entries))
           qres == RunHandleFeatureprop(FALSE, quiet.tables.featureprop,
                                        quiet.new_entries[nxt],
                                        Rows(quiet.tables.featureprop, existing_entries))
       IN  /\ tables' = [tables EXCEPT !.featureprop = res.table]
           /\ new_entries' = [new_entries EXCEPT ![nxt] = res.entry]
           /\ returned' = Append(returned, res.ret)
           /\ printed' = printed \o res.printed
           /\ quiet' = [quiet EXCEPT
                           !.tables = [@ EXCEPT !.featureprop = qres.table],
                           !.new_entries = [@ EXCEPT ![nxt] = qres.entry],
                           !.returned = Append(@, qres.ret),
                           !.printed = @ \o qres.printed]
    /\ nxt' = nxt + 1
    /\ txn' = [txn EXCEPT !.committed = session_flush(@, tables')]
    /\ UNCHANGED <<pc, kind, mode, existing_entries, orig_entries, deleted_entries,
                   pre, built, limit, op, marked, diff, repeat, sidevars>>

\* both make the reverse call, on the list of the same kind
BothDeleteFeatureprop ==
    /\ pc = "forward"
    /\ nxt > Len(new_entries)
    /\ \E m \in Modes :
          LET res == RunDeleteFeatureprop(TRUE, tables, existing_entries,
                                          NewEntriesArg(m))
              qres == RunDeleteFeatureprop(
                          FALSE, quiet.tables, existing_entries,
                          IF m = "new" THEN quiet.new_entries
                          ELSE Rows(quiet.tables.featureprop, quiet.returned))
          IN  /\ tables' = res.tables
              /\ deleted_entries' = res.deleted
              /\ printed' = printed \o res.printed
              /\ mode' = m
              /\ quiet' = [quiet EXCEPT !.tables = qres.tables,
                                        !.deleted_entries = qres.deleted,
                                        !.printed = @ \o qres.printed]
    /\ pc' = "done"
    /\ UNCHANGED <<kind, existing_entries, new_entries, orig_entries, nxt,
                   returned, pre, built, limit, op, marked, diff, txn,
                   repeat, sidevars>>

NextVerbose ==
    \/ BothStartPass
    \/ BothHandleFeatureprop
    \/ BothDeleteFeatureprop

SpecVerbose == InitProp /\ [][NextVerbose]_vars

\* the upserts of features, their locations and publications, and the marking
InitFeature ==
    /\ tables = [EmptyTables EXCEPT !.organism = Organisms]
    /\ limit = MaxNew
    /\ InitPass

NextFeature ==
    \/ _handle_feature
    \/ _handle_featureloc
    \/ _handle_pub
    \/ _mark_feature_as_obsolete

SpecFeature == InitFeature /\ [][NextFeature]_vars

\* two clients on one database, each making passes of _handle_feature calls;
\* a row one client has flushed is visible to the queries of the other
Clients == {1, 2}

Outside == [pc |-> "out", new_entry |-> <<>>, existing_id |-> 0]

InitWriters ==
    /\ tables = [EmptyTables EXCEPT !.organism = Organisms]
    /\ limit = MaxNew
    /\ InitPassExceptSide
    /\ diff = NoDiff
    /\ access = NoAccess
    /\ writers = [clients |-> [w \in Clients |-> Outside], overlapped |-> FALSE]

\* client w starts a pass; overlapped records that the other was inside one
BeginPass(w) ==
    /\ writers.clients[w].pc = "out"
    /\ built < limit
    /\ writers' = [writers EXCEPT
                      !.clients[w].pc = "idle",
                      !.overlapped = @ \/ \E v \in Clients \ {w} :
                                               writers.clients[v].pc # "out"]
    /\ UNCHANGED <<tables, corevars, access, printed, built, op, marked, txn>>

\* lines 223-224 of _handle_feature in client w: query_first with the key of
\* a new candidate
HandleFeatureQuery(w) ==
    /\ writers.clients[w].pc = "idle"
    /\ built < limit
    /\ \E new_entry \in FeatureCandidates :
       \E id \in IF Found("feature", tables.feature, new_entry) = {}
                 THEN {0}
                 ELSE Ids(Found("feature", tables.feature, new_entry)) :
          writers' = [writers EXCEPT
                         !.clients[w] = [pc |-> "queried", new_entry |-> new_entry,
                                         existing_id |-> id]]
    /\ built' = built + 1
    /\ UNCHANGED <<tables, corevars, access, printed, op, marked, txn>>

\* lines 225-237 of _handle_feature in client w: update the entry the query
\* returned, or insert the candidate if it returned none
HandleFeatureWrite(w) ==
    /\ writers.clients[w].pc = "queried"
    /\ LET new_entry == writers.clients[w].new_entry
           id == writers.clients[w].existing_id
           res == IF id = 0
                  THEN InsertResult("feature", tables.feature, new_entry)
                  ELSE ExistingResult("feature", tables.feature, new_entry,
                                      Row(tables.feature, id))
       IN  /\ tables' = [tables EXCEPT !.feature = res.table]
           /\ op' = [name |-> "_handle_feature", arg |-> new_entry,
                     outcome |-> res.outcome, ret |-> res.ret]
           /\ printed' = res.lines
    /\ writers' = [writers EXCEPT !.clients[w].pc = "idle"]
    /\ UNCHANGED <<corevars, access, built, marked, txn>>

\* client w ends its pass
EndPass(w) ==
    /\ writers.clients[w].pc = "idle"
    /\ writers' = [writers EXCEPT !.clients[w] = Outside]
    /\ UNCHANGED <<tables, corevars, access, printed, built, op, marked, txn>>

NextWriters ==
    \E w \in Clients :
        \/ BeginPass(w)
        \/ HandleFeatureQuery(w)
        \/ HandleFeatureWrite(w)
        \/ EndPass(w)

SpecWriters == InitWriters /\ [][NextWriters]_vars

\* the passes over the two join tables whose rows have no attribute to copy
NextLinks ==
    \/ StartPass("feature_cvterm")
    \/ _handle_feature_cvterm
    \/ _delete_feature_cvterm
    \/ StartPass("feature_pub")
    \/ _handle_feature_pub
    \/ _delete_feature_pub

SpecLinks == InitProp /\ [][NextLinks]_vars

\* the commands and sub-commands run_command_with_arguments dispatches on
Commands ==
    {<<"connect", "">>, <<"admin", "create">>, <<"admin", "drop">>,
     <<"admin", "dump">>, <<"admin", "restore">>, <<"admin", "setup">>,
     <<"admin", "grant">>, <<"admin", "revoke">>, <<"query", "">>,
     <<"extract", "organisms">>, <<"insert", "organism">>,
     <<"delete", "organism">>, <<"import", "essentials">>, <<"import", "gff">>}

\* a gate that lets every task through once the database exists
check_access_if_exists(exists, task) ==
    IF exists
    THEN [ret |-> TRUE, lines |-> <<>>]
    ELSE IF task \in {"create", "restore"}
         THEN [ret |-> TRUE, lines |-> <<>>]
         ELSE [ret |-> FALSE,
               lines |-> <<"Database does not exist. Task can't be completed.">>]

\* tasks.check_access, given what dbutils.exists returned: [ret, lines]
check_access(exists, task) ==
    IF exists
    THEN IF task \in {"create", "restore"}
         THEN [ret |-> FALSE,
               lines |-> <<"Database already exists. Overwriting is not permitted.">>]
         ELSE [ret |-> TRUE, lines |-> <<>>]
    ELSE IF task \in {"create", "restore"}
         THEN [ret |-> TRUE, lines |-> <<>>]
         ELSE [ret |-> FALSE,
               lines |-> <<"Database does not exist. Task can't be completed.">>]

\* whether the database exists after run_command_with_arguments: it is
\* created by admin create and admin restore and dropped by admin drop
DatabaseAfter(command, sub_command, database) ==
    IF command = "admin" /\ sub_command \in {"create", "restore"} THEN TRUE
    ELSE IF command = "admin" /\ sub_command = "drop" THEN FALSE
    ELSE database

InitAccess ==
    /\ tables = EmptyTables
    /\ limit = MaxNew
    /\ InitPassExceptSide
    /\ diff = NoDiff
    /\ writers = NoWriters
    /\ \E database \in BOOLEAN :
          access = [done |-> FALSE, phase |-> "start", database |-> database,
                    calls |-> 0, command |-> "", sub_command |-> "", task |-> "",
                    exists |-> database, result |-> FALSE]

\* the command line is invoked: check_access is called with the sub-command
CheckAccess ==
    /\ access.phase \in {"start", "denied", "ran"}
    /\ access.calls < MaxCalls
    /\ \E c \in Commands :
          LET res == check_access(access.database, c[2])
          IN  /\ access' = [access EXCEPT
                               !.done = TRUE,
                               !.phase = IF res.ret THEN "allowed" ELSE "denied",
                               !.calls = @ + 1,
                               !.command = c[1],
                               !.sub_command = c[2],
                               !.task = c[2],
                               !.exists = access.database,
                               !.result = res.ret]
              /\ printed' = res.lines
    /\ UNCHANGED <<tables, corevars, writers, built, op, marked, txn>>

\* run_command_with_arguments, called when check_access has returned True
run_command_with_arguments ==
    /\ access.phase = "allowed"
    /\ access' = [access EXCEPT
                     !.phase = "ran",
                     !.database = DatabaseAfter(access.command, access.sub_command, @)]
    /\ UNCHANGED <<tables, corevars, writers, printed, built, op, marked, txn>>

NextAccess ==
    \/ CheckAccess
    \/ run_command_with_arguments

SpecAccess == InitAccess /\ [][NextAccess]_vars

\* every method of the client, in any order between passes
InitEngine ==
    /\ tables = [EmptyTables EXCEPT !.organism = Organisms]
    /\ limit = MaxEngineNew
    /\ InitPass

NextEngine ==
    \/ NextProp
    \/ NextJoin
    \/ NextFeature
    \/ _handle_synonym
    \/ _handle_db
    \/ _handle_dbxref
    \/ _handle_cv
    \/ _handle_cvterm
    \/ _load_cvterm
    \/ _load_cvterms
    \/ _load_pub
    \/ _load_organism
    \/ _load_feature_ids

SpecEngine == InitEngine /\ [][NextEngine]_vars

\* the lookups of a loader in a database that holds a vocabulary with one term
InitLookup ==
    /\ tables = [EmptyTables EXCEPT
                    !.organism = Organisms,
                    !.cv = {[id |-> 1, name |-> "cv1"]},
                    !.cvterm = {[id |-> 1, cv_id |-> 1, name |-> "n1", dbxref_id |-> 1,
                                 is_relationshiptype |-> 0]}]
    /\ limit = MaxNew
    /\ InitPass

NextLookup ==
    \/ _handle_cv
    \/ _handle_cvterm
    \/ _handle_pub
    \/ _load_cvterm
    \/ _load_cvterms
    \/ _load_pub
    \/ _load_organism
    \/ _load_feature_ids

SpecLookup == InitLookup /\ [][NextLookup]_vars

\* the update_ methods, called on records read from the session and from a loader
UpdateKinds ==
    {"pub", "feature", "featureloc", "feature_dbxref", "feature_relationship",
     "synonym", "feature_synonym"}

\* the attributes of the mapped classes the model carries
Attributes(k) ==
    CASE k = "pub" -> {"id", "uniquename", "type_id"} \cup Range(PubAttributes)
      [] k = "feature" ->
            {"id", "organism_id", "type_id", "uniquename"} \cup Range(FeatureAttributes)
      [] k = "featureloc" ->
            {"id", "feature_id", "srcfeature_id"} \cup Range(FeaturelocAttributes)
      [] k = "feature_dbxref" -> {"id", "feature_id", "dbxref_id", "is_current"}
      [] k = "feature_relationship" ->
            {"id", "subject_id", "object_id", "type_id", "rank", "value"}
      [] k = "synonym" -> {"id", "name", "type_id", "synonym_sgml"}
      [] k = "feature_synonym" ->
            {"id", "feature_id", "synonym_id", "pub_id", "is_internal", "is_current"}

\* the records that differ from the base record in at most n attributes
Variants(k, n) ==
    {[a \in Attributes(k) |-> IF a \in S THEN "y" ELSE "x"] :
        S \in {S \in SUBSET Attributes(k) : Cardinality(S) <= n}}

UpdateProperties(k, existing_entry, new_entry) ==
    CASE k = "pub" -> update_pub_properties(existing_entry, new_entry)
      [] k = "feature" -> update_feature_properties(existing_entry, new_entry)
      [] k = "featureloc" -> update_featureloc_properties(existing_entry, new_entry)
      [] k = "feature_dbxref" ->
            update_feature_dbxref_properties(existing_entry, new_entry)
      [] k = "feature_relationship" ->
            update_feature_relationship_properties(existing_entry, new_entry)
      [] k = "synonym" -> update_synonym_properties(existing_entry, new_entry)
      [] k = "feature_synonym" ->
            update_feature_synonym_properties(existing_entry, new_entry)

InitDiff ==
    /\ tables = EmptyTables
    /\ limit = 0
    /\ InitPassExceptDiff
    /\ \E k \in UpdateKinds :
       \E existing_entry \in Variants(k, 1) :
       \E new_entry \in Variants(k, MaxDiff) :
          diff = [kind |-> k, done |-> FALSE, existing_entry |-> existing_entry,
                  new_entry |-> new_entry]

CallUpdate ==
    /\ ~diff.done
    /\ diff.kind \in UpdateKinds
    /\ LET res == UpdateProperties(diff.kind, diff.existing_entry, diff.new_entry)
       IN  diff' = [kind |-> diff.kind, done |-> TRUE,
                    existing_entry |-> diff.existing_entry,
                    new_entry |-> diff.new_entry,
                    updated |-> res.updated, result |-> res.entry]
    /\ UNCHANGED <<tables, pc, kind, mode, existing_entries, new_entries,
                   orig_entries, nxt, returned, deleted_entries, pre, printed,
                   built, limit, op, marked, txn, quiet, repeat, sidevars>>

NextDiff == CallUpdate

SpecDiff == InitDiff /\ [][NextDiff]_vars

----------------------------------------------------------------------------
(* What a pass did, read off the table before and after *)

Inserted == {r \in tables[kind] : r.id \notin Ids(pre)}
Deleted == {r \in pre : r.id \notin Ids(tables[kind])}
Updated == {r \in tables[kind] : \E e \in pre : e.id = r.id /\ e # r}

KeyUnique(k, T) ==
    \A r, s \in T : Signature(k, r) = Signature(k, s) => r = s

SeqKeyUnique(k, s) ==
    \A i, j \in DOMAIN s : Signature(k, s[i]) = Signature(k, s[j]) => i = j

PropPassDone == pc = "done" /\ kind = "featureprop"

SameProperty(a, b) == a.type_id = b.type_id /\ a.value = b.value

----------------------------------------------------------------------------
(* Claims on the featureprop passes (SpecProp) *)

\* C2: starting from a featureprop table with no duplicate (type_id, rank), a
\* pass whose candidates carry distinct (type_id, rank) leaves no two rows of
\* the same type with the same rank.
C2_RankNonCollision ==
    (PropPassDone /\ KeyUnique("featureprop", pre)
        /\ SeqKeyUnique("featureprop", orig_entries))
    => KeyUnique("featureprop", tables.featureprop)

ValueChangeScenario ==
    /\ PropPassDone
    /\ Len(orig_entries) = 1
    /\ \E e \in pre :
          /\ e.type_id = orig_entries[1].type_id
          /\ e.rank = orig_entries[1].rank
          /\ e.value # orig_entries[1].value
          /\ \A f \in pre : f.type_id = e.type_id => f = e

\* C5 as stated: in the scenario the existing row is untouched and the
\* candidate is inserted one rank higher: 1 insertion, 0 deletions, 0 updates.
C5_ValueChangeKeepsExisting ==
    ValueChangeScenario =>
        /\ Inserted = {[orig_entries[1] EXCEPT !.rank = orig_entries[1].rank + 1]}
        /\ Deleted = {}
        /\ Updated = {}

\* C5 amended: in the scenario the candidate is inserted one rank higher and
\* the reverse call deletes the existing row of that type, no candidate carrying
\* its rank any more: 1 insertion, 1 deletion of that type, 0 updates.
C5_ValueChangeReplacesExisting ==
    ValueChangeScenario =>
        /\ Inserted = {[orig_entries[1] EXCEPT !.rank = orig_entries[1].rank + 1]}
        /\ \E e \in Deleted :
              /\ e.type_id = orig_entries[1].type_id
              /\ e.rank = orig_entries[1].rank
              /\ e.id \in Range(deleted_entries)
        /\ {r \in tables.featureprop : r.type_id = orig_entries[1].type_id} = Inserted
        /\ Updated = {}

C5_Witness ==
    /\ ValueChangeScenario
    /\ Cardinality(Inserted) = 1
    /\ Cardinality(Deleted) = 1

\* the existing rows of the candidate's type, as loaded at the start of the pass
ExistingOfType(c) == {e \in pre : e.type_id = c.type_id}

\* C9: a handled candidate whose value differs from every existing row of its
\* type is a row of the table with a rank at least its original rank and above
\* the rank of every existing row of that type; during the forward pass every
\* existing row is as it was loaded.
C9_RankAllocation ==
    (kind = "featureprop" /\ pc \in {"forward", "done"}) =>
        /\ \A i \in 1..(nxt - 1) :
              (\A e \in ExistingOfType(orig_entries[i]) :
                    e.value # orig_entries[i].value)
              => \E r \in tables.featureprop :
                    /\ r.id = orig_entries[i].id
                    /\ SameProperty(r, orig_entries[i])
                    /\ r.rank >= orig_entries[i].rank
                    /\ \A e \in ExistingOfType(orig_entries[i]) : r.rank > e.rank
        /\ pc = "forward" => pre \subseteq tables.featureprop

\* a candidate was inserted above two existing rows of its type that were
\* listed in descending rank order
C9_Witness ==
    /\ kind = "featureprop"
    /\ pc = "forward"
    /\ nxt > 1
    /\ Len(existing_entries) >= 2
    /\ LET c == orig_entries[1]
           e1 == Row(pre, existing_entries[1])
           e2 == Row(pre, existing_entries[2])
       IN  /\ e1.type_id = c.type_id /\ e2.type_id = c.type_id
           /\ e1.rank > e2.rank
           /\ e1.value # c.value /\ e2.value # c.value
           /\ new_entries[1].rank > c.rank
           /\ new_entries[1] \in tables.featureprop

----------------------------------------------------------------------------
(* Claims on the passes over the join tables (SpecJoin) *)

Sigs(k, S) == {Signature(k, e) : e \in S}

\* the pass kept exactly the existing rows whose signature a candidate carries,
\* inserted exactly the candidates whose signature no existing row carries, and
\* the table holds nothing else
ReconciledBySignature ==
    /\ \A e \in pre :
          e.id \in Ids(tables[kind])
              <=> Signature(kind, e) \in Sigs(kind, Range(orig_entries))
    /\ \A i \in DOMAIN orig_entries :
          orig_entries[i] \in tables[kind]
              <=> Signature(kind, orig_entries[i]) \notin Sigs(kind, pre)
    /\ Ids(tables[kind]) \subseteq Ids(pre) \cup Ids(Range(orig_entries))

\* C1 as stated: after the forward pass and the reverse pass of any join table
\* the retained rows are the existing rows a candidate matches by full
\* signature and the candidates no existing row matches; every other existing
\* row is deleted.
C1_ReconciliationComplete == pc = "done" => ReconciledBySignature

\* C1 amended: the same for the tables whose forward match is the full
\* signature, feature_dbxref (dbxref_id) and feature_pub (pub_id).
C1_ReconciliationCompleteSameKey ==
    (pc = "done" /\ kind \in {"feature_dbxref", "feature_pub"})
        => ReconciledBySignature

\* a feature_dbxref pass that kept a row, updated, and inserted a candidate
C1_Witness ==
    /\ pc = "done"
    /\ kind = "feature_dbxref"
    /\ Updated # {}
    /\ Inserted # {}

----------------------------------------------------------------------------
(* Claims on features, locations and publications (SpecFeature) *)

\* C3 as stated: a feature that _mark_feature_as_obsolete has flagged stays
\* obsolete whatever is called later.
C3_MarkedStaysObsolete ==
    \A f \in tables.feature : f.id \in marked => f.is_obsolete

\* C3 amended: the flag of a feature is cleared by nothing but _handle_feature
\* finding that feature for a candidate whose is_obsolete is false (the flag is
\* among the attributes update_feature_properties copies).
C3_ClearedOnlyByUpsert ==
    [][\A f \in tables.feature :
          f.is_obsolete =>
              \E g \in tables'.feature :
                  /\ g.id = f.id
                  /\ \/ g.is_obsolete
                     \/ /\ op'.name = "_handle_feature"
                        /\ op'.ret = f.id
                        /\ op'.outcome = "updated"
                        /\ ~op'.arg.is_obsolete]_vars

\* a feature flagged by _mark_feature_as_obsolete was upserted and lost the flag
C3_Witness ==
    \E f \in tables.feature :
        /\ f.id \in marked
        /\ ~f.is_obsolete
        /\ op.name = "_handle_feature"
        /\ op.ret = f.id
        /\ op.outcome = "updated"

UpsertTable(name) ==
    CASE name = "_handle_feature" -> "feature"
      [] name = "_handle_featureloc" -> "featureloc"
      [] name = "_handle_pub" -> "pub"

\* the step is a call of _handle_feature, _handle_featureloc or _handle_pub
UpsertCall ==
    /\ built' = built + 1
    /\ op'.name \in {"_handle_feature", "_handle_featureloc", "_handle_pub"}

\* C6: an upsert of a candidate whose natural key no row carries inserts it;
\* the same upsert called again with the identical candidate is unchanged: it
\* returns the same row, prints nothing and leaves every table as it was.
C6_UpsertIdempotent ==
    [][/\ (UpsertCall /\ query_all(tables[UpsertTable(op'.name)],
                                   UpsertTable(op'.name), op'.arg) = {})
            => /\ op'.outcome = "inserted"
               /\ [op'.arg EXCEPT !.id = op'.ret] \in tables'[UpsertTable(op'.name)]
       /\ (UpsertCall /\ op.name = op'.name /\ op.arg = op'.arg
                /\ op.outcome = "inserted")
            => /\ op'.outcome = "unchanged"
               /\ op'.ret = op.ret
               /\ printed' = <<>>
               /\ tables' = tables]_vars

\* a publication was upserted twice into an empty database: inserted, unchanged
C6_Witness ==
    /\ op.name = "_handle_pub"
    /\ op.outcome = "unchanged"
    /\ built = 2
    /\ Cardinality(tables.pub) = 1
    /\ tables.feature = {}
    /\ tables.featureloc = {}

----------------------------------------------------------------------------
(* Claims on the update_ methods (SpecDiff) *)

\* the allow-list of each entity kind
AllowList(k) ==
    CASE k = "pub" ->
            {"title", "volume", "volumetitle", "series_name", "issue", "pyear",
             "pages", "miniref", "publisher", "pubplace", "is_obsolete"}
      [] k = "feature" ->
            {"name", "residues", "seqlen", "md5checksum", "is_analysis", "is_obsolete"}
      [] k = "featureloc" -> {"fmin", "fmax", "strand", "phase"}
      [] k = "feature_dbxref" -> {"is_current"}
      [] k = "feature_relationship" -> {"value"}
      [] k = "synonym" -> {"synonym_sgml"}
      [] k = "feature_synonym" -> {"is_internal", "is_current"}

\* C7: an update_ method returns true exactly when an allow-listed attribute
\* of the existing and the new entry differs; afterwards the existing entry has
\* the new entry's value in every allow-listed attribute and its own value in
\* every other attribute.
C7_DiffCorrect ==
    diff.done =>
        /\ diff.updated <=> \E a \in AllowList(diff.kind) :
                                diff.existing_entry[a] # diff.new_entry[a]
        /\ \A a \in AllowList(diff.kind) : diff.result[a] = diff.new_entry[a]
        /\ \A a \in Attributes(diff.kind) \ AllowList(diff.kind) :
              diff.result[a] = diff.existing_entry[a]

\* update_feature_synonym_properties copied one of two allow-listed attributes
\* of entries that also differ outside the allow-list
C7_Witness ==
    /\ diff.done
    /\ diff.kind = "feature_synonym"
    /\ diff.updated
    /\ diff.existing_entry.is_current # diff.new_entry.is_current
    /\ diff.existing_entry.is_internal = diff.new_entry.is_internal
    /\ diff.existing_entry.pub_id # diff.new_entry.pub_id
    /\ diff.result.pub_id = diff.existing_entry.pub_id

----------------------------------------------------------------------------
(* Claims on the whole client (SpecEngine) *)

LookupKinds == {"cv", "cvterm", "db", "dbxref"}

\* C8 as stated: no method of the client creates or deletes a row of cv,
\* cvterm, db or dbxref.
C8_LookupReadOnly ==
    [][\A k \in LookupKinds : tables'[k] = tables[k]]_vars

\* C8: no method of the client deletes or changes a row of cv, cvterm, db or
\* dbxref; a row is added to one of these tables only by the table's _handle_
\* method, one row per call, and only when its lookup finds none (for db, dbxref
\* and cv: no row with the candidate's natural key; for cvterm: no row with the
\* candidate's dbxref_id and none with its cv_id and name); the _load_ methods
\* add nothing.
C8_LookupInsertOnlyWhenAbsent ==
    [][\A k \in LookupKinds :
          /\ tables[k] \subseteq tables'[k]
          /\ tables'[k] # tables[k] =>
                /\ op'.name = "_handle_" \o k
                /\ op'.outcome = "inserted"
                /\ \E r \in tables'[k] \ tables[k] :
                      /\ tables'[k] = tables[k] \cup {r}
                      /\ r = [op'.arg EXCEPT !.id = r.id]
                /\ \A e \in tables[k] :
                      /\ NaturalKey(k, e) # NaturalKey(k, op'.arg)
                      /\ k = "cvterm" => e.dbxref_id # op'.arg.dbxref_id]_vars

\* _handle_cvterm inserted a term next to another one
C8_Witness ==
    /\ op.name = "_handle_cvterm"
    /\ op.outcome = "inserted"
    /\ Cardinality(tables.cvterm) = 2

\* C10: no step of the client removes a row of the feature table.
C10_FeatureNeverDeleted ==
    [][\A f \in tables.feature : \E g \in tables'.feature : g.id = f.id]_vars

\* a reverse pass deleted the relationship to a feature that is still stored
C10_Witness ==
    /\ pc = "done"
    /\ kind = "feature_relationship"
    /\ \E r \in pre : /\ r.id \in Range(deleted_entries)
                      /\ \E f \in tables.feature : f.id = r.object_id

----------------------------------------------------------------------------
(* Claims on the obsolete marking (SpecFeature) *)

\* the last call was _mark_feature_as_obsolete and no feature has its key
MarkedMissing ==
    /\ op.name = "_mark_feature_as_obsolete"
    /\ ~ \E f \in tables.feature : /\ f.organism_id = op.arg[1]
                                   /\ f.uniquename = op.arg[2]

\* C11: _mark_feature_as_obsolete called for an organism and a uniquename no
\* feature carries ends in a DatabaseError and prints nothing.
C11_MissingFeatureIsDatabaseError ==
    MarkedMissing => (op.outcome = "DatabaseError" /\ printed = <<>>)

\* a step that is a call of _mark_feature_as_obsolete
MarkCall ==
    /\ op'.name = "_mark_feature_as_obsolete"
    /\ op'.outcome \in {"marked", "unchanged"}
    /\ built' = built
    /\ pc' = pc
    /\ nxt' = nxt

----------------------------------------------------------------------------
(* Claims on the _load_ methods (SpecLookup) *)

\* a step that is a call of the _load_ method name
LoadCall(name) ==
    /\ op'.name = name
    /\ built' = built + 1

\* the terms of a vocabulary with a relationship flag
TermsOf(vocabulary, relationship) ==
    {t \in tables.cvterm :
        /\ \E c \in tables.cv : c.name = vocabulary /\ c.id = t.cv_id
        /\ t.is_relationshiptype = (IF relationship THEN 1 ELSE 0)}

\* C13: _load_cvterm, _load_cvterms, _load_pub and _load_organism raise
\* DatabaseError exactly when the term, the vocabulary or one of the terms asked
\* for, the publication or the organism is not stored; otherwise they return
\* what is stored under the name; they change no table and print nothing.
C13_LoadRaisesIffAbsent ==
    [][/\ LoadCall("_load_cvterm") =>
             /\ op'.outcome = "DatabaseError"
                   <=> ~ \E t \in tables.cvterm : t.name = op'.arg
             /\ op'.outcome = "loaded"
                   => \E t \in tables.cvterm : t.name = op'.arg /\ t.id = op'.ret
       /\ LoadCall("_load_cvterms") =>
             /\ op'.outcome = "DatabaseError"
                   <=> \/ ~ \E c \in tables.cv : c.name = op'.arg[1]
                       \/ \E term \in op'.arg[2] :
                             ~ \E t \in TermsOf(op'.arg[1], op'.arg[3]) : t.name = term
             /\ op'.outcome = "loaded" => op'.ret = Ids(TermsOf(op'.arg[1], op'.arg[3]))
       /\ LoadCall("_load_pub") =>
             /\ op'.outcome = "DatabaseError"
                   <=> ~ \E e \in tables.pub : e.uniquename = op'.arg
             /\ op'.outcome = "loaded"
                   => \E e \in tables.pub : e.uniquename = op'.arg /\ e.id = op'.ret
       /\ LoadCall("_load_organism") =>
             /\ op'.outcome = "DatabaseError"
                   <=> ~ \E e \in tables.organism : e.abbreviation = op'.arg
             /\ op'.outcome = "loaded"
                   => \E e \in tables.organism :
                         e.abbreviation = op'.arg /\ e.id = op'.ret
       /\ (\E name \in {"_load_cvterm", "_load_cvterms", "_load_pub", "_load_organism"} :
              LoadCall(name))
             => /\ op'.outcome \in {"DatabaseError", "loaded"}
                /\ tables' = tables
                /\ printed' = <<>>]_vars

\* _load_cvterms returned the two terms asked for, one of them inserted by
\* _handle_cvterm
C13_Witness ==
    /\ op.name = "_load_cvterms"
    /\ op.outcome = "loaded"
    /\ op.arg[2] = TermNames
    /\ Cardinality(op.ret) = 2
    /\ built = 3

----------------------------------------------------------------------------
(* Scenarios of the join tables (SpecJoin) *)

\* the scenario of C14: one candidate, and one existing row with its dbxref_id,
\* which differs from it in is_current
DbxrefUpdateScenario(e) ==
    /\ pc = "done"
    /\ kind = "feature_dbxref"
    /\ Len(orig_entries) = 1
    /\ e.dbxref_id = orig_entries[1].dbxref_id
    /\ e.is_current # orig_entries[1].is_current
    /\ \A f \in pre : f.dbxref_id = e.dbxref_id => f = e

\* C14: in the scenario the pass updates the existing row in place, which takes
\* the candidate's is_current, inserts nothing, deletes no row of that dbxref
\* and prints one line for the update; when the row is the only existing one
\* nothing is deleted and that line is the only one printed.
C14_DbxrefUpdatedInPlace ==
    \A e \in pre :
        DbxrefUpdateScenario(e) =>
            /\ Updated = {[e EXCEPT !.is_current = orig_entries[1].is_current]}
            /\ Inserted = {}
            /\ e \notin Deleted
            /\ Len(SelectSeq(printed, LAMBDA l : l = "Updated")) = 1
            /\ returned = <<e.id>>
            /\ pre = {e} => (Deleted = {} /\ printed = <<"Updated">>)

\* a pass over the only existing cross reference changed its is_current
C14_Witness ==
    \E e \in pre :
        /\ DbxrefUpdateScenario(e)
        /\ pre = {e}
        /\ ~e.is_current
        /\ \E r \in tables.feature_dbxref : r.id = e.id /\ r.is_current

\* C15: a pass with no candidate deletes every existing row of the table,
\* returns those rows in the order of the existing list, prints one line for
\* each of them and leaves the table empty.
C15_EmptyCandidatesDeleteAll ==
    (pc = "done" /\ orig_entries = <<>>) =>
        /\ Deleted = pre
        /\ tables[kind] = {}
        /\ deleted_entries = existing_entries
        /\ Range(existing_entries) = Ids(pre)
        /\ printed = [i \in DOMAIN existing_entries |-> "Deleted"]
        /\ Len(printed) = Cardinality(pre)

\* a pass with no candidate deleted the two synonyms of the feature
C15_Witness ==
    /\ pc = "done"
    /\ kind = "feature_synonym"
    /\ orig_entries = <<>>
    /\ Cardinality(pre) = 2
    /\ Len(deleted_entries) = 2
    /\ tables.feature_synonym = {}

----------------------------------------------------------------------------
(* Claims on the lines printed (SpecEngine) *)

\* the rows of a table a step inserted or changed, and those it deleted
RowChanges(before, after) ==
    Cardinality({r \in after : r \notin before})
        + Cardinality({r \in before : r.id \notin Ids(after)})

RECURSIVE CountChanges(_, _, _)
CountChanges(ks, before, after) ==
    IF ks = {} THEN 0
    ELSE LET k == CHOOSE x \in ks : TRUE
         IN  RowChanges(before[k], after[k]) + CountChanges(ks \ {k}, before, after)

\* the number of lines a step printed: a call inside a pass appends to the
\* lines of the pass, the start of a pass prints nothing, any other call starts
\* afresh
LinesOfStep ==
    IF pc = "forward" THEN Len(printed') - Len(printed)
    ELSE IF pc' = "forward" THEN 0
    ELSE Len(printed')

\* C16: every call prints as many lines as rows it inserted, updated, marked
\* or deleted: a _handle_ method one line when it inserted or updated and none
\* when it left the tables unchanged, a _delete_ method one line for each row
\* it deleted.
C16_LinesCountChanges ==
    [][/\ LinesOfStep = CountChanges(DOMAIN tables, tables, tables')
       /\ (pc # "forward" /\ pc' # "forward" /\ built' = built + 1
              /\ op'.outcome \in {"inserted", "updated", "unchanged"})
            => /\ op'.outcome \in {"inserted", "updated"} => Len(printed') = 1
               /\ op'.outcome = "unchanged" => (printed' = <<>> /\ tables' = tables)
       /\ (pc = "forward" /\ pc' = "done")
            => /\ Len(printed') - Len(printed) = Len(deleted_entries')
               /\ Len(deleted_entries') =
                     Cardinality(tables[kind]) - Cardinality(tables'[kind])]_vars

\* a feature was inserted, then a pass inserted a publication of the feature
\* and the next pass deleted it and printed one line
C16_Witness ==
    /\ pc = "done"
    /\ kind = "feature_pub"
    /\ Len(deleted_entries) = 1
    /\ printed = <<"Deleted">>
    /\ op.name = "_handle_feature"
    /\ op.outcome = "inserted"

----------------------------------------------------------------------------
(* Claims on the forward calls of the join tables (SpecJoin) *)

\* the ids of the existing entries with the forward key of the candidate the
\* next forward call is given, in list order
MatchingIds ==
    SelectSeq(existing_entries,
              LAMBDA id : ForwardKey(kind, Row(tables[kind], id))
                              = ForwardKey(kind, new_entries[nxt]))

\* the first matching row after the call: the allow-listed attributes are the
\* candidate's
FirstMatchAfter(k, row, cand) ==
    CASE k = "feature_relationship" -> [row EXCEPT !.value = cand.value]
      [] k = "feature_synonym" ->
            [row EXCEPT !.is_internal = cand.is_internal,
                        !.is_current = cand.is_current]
      [] k = "feature_dbxref" -> [row EXCEPT !.is_current = cand.is_current]
      [] k \in {"feature_cvterm", "feature_pub"} -> row

\* C18: a forward call of feature_relationship, feature_synonym or
\* feature_cvterm whose candidate matches several existing entries returns the
\* first of them in list order, gives it the candidate's allow-listed
\* attributes, leaves every other row as it was and inserts nothing.
C18_FirstMatchWins ==
    [][(pc = "forward" /\ nxt' = nxt + 1
           /\ kind \in {"feature_relationship", "feature_synonym", "feature_cvterm"}
           /\ Len(MatchingIds) > 1)
         => /\ returned' = Append(returned, MatchingIds[1])
            /\ tables'[kind] =
                  {IF r.id = MatchingIds[1]
                   THEN FirstMatchAfter(kind, r, new_entries[nxt]) ELSE r :
                       r \in tables[kind]}]_vars

\* a relationship candidate matched two existing rows; the first in list order
\* took its value, the other kept a different one
C18_Witness ==
    /\ pc = "forward"
    /\ kind = "feature_relationship"
    /\ nxt = 2
    /\ \E a, b \in pre :
          /\ a.id # b.id
          /\ ForwardKey(kind, a) = ForwardKey(kind, orig_entries[1])
          /\ ForwardKey(kind, b) = ForwardKey(kind, orig_entries[1])
          /\ a.value # orig_entries[1].value
          /\ b.value # orig_entries[1].value
          /\ returned[1] = a.id
          /\ [a EXCEPT !.value = orig_entries[1].value] \in tables.feature_relationship
          /\ b \in tables.feature_relationship

----------------------------------------------------------------------------
(* Claims on the reverse calls (SpecPasses) *)

\* the full signature of a row of each table
FullSignature(k, e) ==
    CASE k = "featureprop" -> <<e.type_id, e.rank>>
      [] k = "feature_dbxref" -> <<e.dbxref_id>>
      [] k = "feature_cvterm" -> <<e.cvterm_id, e.pub_id, e.rank>>
      [] k = "feature_relationship" -> <<e.type_id, e.object_id, e.rank>>
      [] k = "feature_synonym" -> <<e.synonym_id, e.pub_id>>
      [] k = "feature_pub" -> <<e.pub_id>>

\* the existing entries no entry of the list new shares the full signature with
Unmatched(new) ==
    SelectSeq(existing_entries,
              LAMBDA id : ~ \E j \in DOMAIN new :
                              FullSignature(kind, new[j])
                                  = FullSignature(kind, Row(tables[kind], id)))

\* C20: a _delete_ method deletes an existing entry exactly when no entry of
\* the new_entries it is given shares the entry's full signature, returns the
\* deleted entries in the order of the existing list and changes no other row.
C20_DeleteIffUnmatched ==
    [][(pc = "forward" /\ pc' = "done") =>
          LET new == IF mode' = "new" THEN new_entries
                     ELSE Rows(tables[kind], returned)
          IN  /\ deleted_entries' = Unmatched(new)
              /\ tables'[kind] = {r \in tables[kind] : r.id \notin Range(Unmatched(new))}
              /\ \A k \in DOMAIN tables : k # kind => tables'[k] = tables[k]]_vars

\* _delete_feature_cvterm deleted a row whose term a candidate carries with
\* another publication, and kept a row a candidate matches in full
C20_Witness ==
    /\ pc = "done"
    /\ kind = "feature_cvterm"
    /\ mode = "new"
    /\ \E r \in pre : \E i \in DOMAIN new_entries :
          /\ r.id \in Range(deleted_entries)
          /\ new_entries[i].cvterm_id = r.cvterm_id
          /\ new_entries[i].pub_id # r.pub_id
    /\ \E r \in pre : \E i \in DOMAIN new_entries :
          /\ r \in tables.feature_cvterm
          /\ FullSignature(kind, r) = FullSignature(kind, new_entries[i])

----------------------------------------------------------------------------
(* Claims on the transaction (SpecTxn) *)

\* C19: no call of the client commits: while the transaction is open the
\* committed rows stay as they were; once a _load_ method has raised
\* DatabaseError no further call is made, the transaction is discarded, and
\* nothing flushed since the start of the import is committed.
C19_NoPartialCommit ==
    [][/\ (txn.state = "open" /\ txn'.state = "open")
            => txn'.committed = txn.committed
       /\ (txn.state = "open" /\ op.outcome = "DatabaseError")
            => /\ txn'.state = "closed"
               /\ txn'.committed = txn.committed
               /\ tables' = txn.committed
               /\ UNCHANGED <<pc, nxt, returned, deleted_entries, printed, op>>
       /\ txn'.state = "closed"
            => txn'.committed = [EmptyTables EXCEPT !.organism = Organisms]]_vars

\* _load_pub raised after the first of two forward calls had inserted a
\* property; the second call was never made and the property is gone
C19_Witness ==
    /\ txn.state = "closed"
    /\ op.name = "_load_pub"
    /\ op.outcome = "DatabaseError"
    /\ pc = "forward"
    /\ kind = "featureprop"
    /\ nxt = 2
    /\ Len(new_entries) = 2
    /\ printed = <<"Inserted">>
    /\ tables.featureprop = {}

----------------------------------------------------------------------------
(* Claims on the printer (SpecVerbose) *)

----------------------------------------------------------------------------
(* Claims on whole passes over the join tables (SpecJoin) *)

\* the key of the forward match of the tables whose reverse signature is finer
CoarseKey(k, e) ==
    CASE k = "feature_cvterm" -> <<e.cvterm_id>>
      [] k = "feature_synonym" -> <<e.synonym_id>>
      [] k = "feature_relationship" -> <<e.type_id, e.object_id>>

CoarseKinds == {"feature_cvterm", "feature_synonym", "feature_relationship"}

\* every candidate of the pass has a row with its forward key
CandidatesRepresented ==
    \A i \in DOMAIN orig_entries :
        \E r \in tables[kind] : CoarseKey(kind, r) = CoarseKey(kind, orig_entries[i])

PassRepeated == pc = "done" /\ repeat.on /\ mode = repeat.mode

\* C22 as stated: a pass run a second time with a freshly built copy of the
\* same candidates, against the rows the first pass left, inserts, updates and
\* deletes nothing.
C22_PassIdempotent ==
    PassRepeated => (tables[kind] = pre /\ printed = <<>>)


----------------------------------------------------------------------------
(* Claims on the keys of feature, pub and featureloc (SpecFeature) *)

\* C23: after any sequence of _handle_feature and _handle_pub calls of one
\* client on a store with unique keys, no two features share organism, type
\* and unique name, and no two publications share unique name and type.
C23_NaturalKeysUnique ==
    /\ \A a, b \in tables.feature :
          (a.organism_id = b.organism_id /\ a.type_id = b.type_id
              /\ a.uniquename = b.uniquename) => a = b
    /\ \A a, b \in tables.pub :
          (a.uniquename = b.uniquename /\ a.type_id = b.type_id) => a = b

\* _handle_feature has updated one of two features that share organism and
\* unique name under different types
C23_Witness ==
    /\ op.name = "_handle_feature"
    /\ op.outcome = "updated"
    /\ \E a, b \in tables.feature :
          /\ a.id = op.ret
          /\ b.id # a.id
          /\ a.organism_id = b.organism_id
          /\ a.uniquename = b.uniquename
          /\ a.type_id # b.type_id

\* a step that is a call of _handle_featureloc
FeaturelocCall == built' = built + 1 /\ op'.name = "_handle_featureloc"

\* C24: every feature has at most one featureloc row after any sequence of
\* _handle_featureloc calls, and a candidate for a feature that has a location
\* sets fmin, fmax, strand and phase of that row and inserts nothing.
C24_OneLocationPerFeature ==
    [][/\ \A a, b \in tables'.featureloc : a.feature_id = b.feature_id => a = b
       /\ FeaturelocCall
            => \A e \in tables.featureloc :
                  e.feature_id = op'.arg.feature_id
                     => /\ op'.outcome # "inserted"
                        /\ op'.ret = e.id
                        /\ tables'.featureloc =
                              (tables.featureloc \ {e}) \cup
                                 {[e EXCEPT !.fmin = op'.arg.fmin,
                                            !.fmax = op'.arg.fmax,
                                            !.strand = op'.arg.strand,
                                            !.phase = op'.arg.phase]}]_vars

\* _handle_featureloc has moved the only location of a feature to the other strand
C24_Witness ==
    /\ op.name = "_handle_featureloc"
    /\ op.outcome = "updated"
    /\ \E e \in tables.featureloc :
          /\ e.id = op.ret
          /\ e.feature_id = op.arg.feature_id
          /\ e.strand = op.arg.strand
          /\ e.fmin = op.arg.fmin
          /\ \A f \in tables.featureloc : f.feature_id = e.feature_id => f = e
    /\ built = 2


----------------------------------------------------------------------------
(* Claims on two clients (SpecWriters) *)

\* two features share organism, type and unique name
DuplicateFeatureKey ==
    \E a, b \in tables.feature :
        /\ a # b
        /\ a.organism_id = b.organism_id
        /\ a.type_id = b.type_id
        /\ a.uniquename = b.uniquename

\* C25: two rows for one feature key are reachable when the passes of two
\* clients interleave (both look the key up before either inserts), and only
\* then: as long as one pass runs at a time no two features share a key.
C25_DuplicateOnlyWhenInterleaved == DuplicateFeatureKey => writers.overlapped

\* both clients have ended their passes and two features share a key
C25_Witness ==
    /\ writers # NoWriters
    /\ DuplicateFeatureKey
    /\ \A w \in Clients : writers.clients[w].pc = "out"
    /\ op.name = "_handle_feature"
    /\ op.outcome = "inserted"


----------------------------------------------------------------------------
(* Claims on feature_pub and feature_cvterm (SpecLinks) *)

\* a step that is a forward call for feature_pub or feature_cvterm
LinkCall ==
    /\ pc = "forward"
    /\ nxt' = nxt + 1
    /\ kind \in {"feature_pub", "feature_cvterm"}

\* the entries of the list queried before the pass that a forward call for
\* feature_pub or feature_cvterm compares equal to the candidate
LinkMatches(new_entry) ==
    SelectSeq(existing_entries,
              LAMBDA id : IF kind = "feature_pub"
                          THEN Row(tables[kind], id).pub_id = new_entry.pub_id
                          ELSE Row(tables[kind], id).cvterm_id = new_entry.cvterm_id)

\* C26: a forward call for feature_pub or feature_cvterm leaves every existing
\* row as it is; with a matching row it returns the first one, changes nothing
\* and prints nothing, without one it inserts the candidate.
C26_LinksNeverUpdated ==
    [][LinkCall
         => /\ tables[kind] \subseteq tables'[kind]
            /\ IF LinkMatches(new_entries[nxt]) # <<>>
               THEN /\ tables' = tables
                    /\ printed' = printed
                    /\ returned'[nxt] = LinkMatches(new_entries[nxt])[1]
               ELSE /\ tables'[kind] = tables[kind] \cup {new_entries[nxt]}
                    /\ printed' = printed \o <<"Inserted">>
                    /\ returned'[nxt] = new_entries[nxt].id]_vars

\* a forward call for feature_cvterm has returned a row that names another
\* publication than its candidate, and the row is as it was before the pass
C26_Witness ==
    /\ pc = "forward"
    /\ kind = "feature_cvterm"
    /\ nxt > Len(new_entries)
    /\ printed = <<>>
    /\ \E i \in DOMAIN returned : \E e \in pre :
          /\ e.id = returned[i]
          /\ e.cvterm_id = orig_entries[i].cvterm_id
          /\ e.pub_id # orig_entries[i].pub_id
          /\ e \in tables.feature_cvterm


----------------------------------------------------------------------------
(* Claims on the rows _mark_feature_as_obsolete touches (SpecFeature) *)

\* a step that is a call of _mark_feature_as_obsolete, whatever its outcome
AnyMarkCall ==
    /\ op'.name = "_mark_feature_as_obsolete"
    /\ built' = built
    /\ pc' = pc
    /\ nxt' = nxt

\* C27: _mark_feature_as_obsolete changes at most the is_obsolete flag of one
\* feature, which has the organism and the unique name of the call, and leaves
\* every other attribute, every other feature and every other table as they
\* were; of two features of the organism that share the unique name under
\* different types only the one found is marked.
C27_MarkTouchesOneFlag ==
    [][AnyMarkCall =>
          \/ tables' = tables
          \/ \E f \in tables.feature :
                /\ f.organism_id = op'.arg[1]
                /\ f.uniquename = op'.arg[2]
                /\ f.id = op'.ret
                /\ ~f.is_obsolete
                /\ tables' = [tables EXCEPT !.feature =
                                 (@ \ {f}) \cup {[f EXCEPT !.is_obsolete = TRUE]}]]_vars

\* of two features that share organism and unique name under different types
\* one has been marked and the other has not
C27_Witness ==
    /\ op.name = "_mark_feature_as_obsolete"
    /\ op.outcome = "marked"
    /\ \E f, g \in tables.feature :
          /\ f.id = op.ret
          /\ g.id # f.id
          /\ g.organism_id = f.organism_id
          /\ g.uniquename = f.uniquename
          /\ g.type_id # f.type_id
          /\ f.is_obsolete
          /\ ~g.is_obsolete


----------------------------------------------------------------------------
(* Claims on _handle_cvterm (SpecLookup) *)

\* a step that is a call of _handle_cvterm
CvtermCall == op'.name = "_handle_cvterm" /\ built' = built + 1

\* C28: _handle_cvterm returns a term with the candidate's dbxref if there is
\* one, else a term with the candidate's cv and name if there is one, and in
\* both cases changes and prints nothing; it inserts the candidate only when
\* there is neither; the same call made again adds no row.
C28_CvtermTwoStepMatch ==
    [][CvtermCall =>
          LET c == op'.arg
              by_dbxref == {e \in tables.cvterm : e.dbxref_id = c.dbxref_id}
              by_name == {e \in tables.cvterm : e.cv_id = c.cv_id /\ e.name = c.name}
          IN  /\ by_dbxref # {}
                    => /\ op'.ret \in Ids(by_dbxref)
                       /\ tables' = tables
                       /\ printed' = <<>>
              /\ (by_dbxref = {} /\ by_name # {})
                    => /\ op'.ret \in Ids(by_name)
                       /\ tables' = tables
                       /\ printed' = <<>>
              /\ (by_dbxref = {} /\ by_name = {})
                    => /\ op'.ret \notin Ids(tables.cvterm)
                       /\ tables' = [tables EXCEPT !.cvterm =
                                        @ \cup {[c EXCEPT !.id = op'.ret]}]
                       /\ printed' = <<"Inserted">>
              /\ (op.name = "_handle_cvterm" /\ op.arg = c)
                    => /\ tables' = tables
                       /\ op'.ret = op.ret]_vars

\* _handle_cvterm has returned the term with the candidate's dbxref although
\* another term has the candidate's cv and name, and has copied nothing
C28_Witness ==
    /\ op.name = "_handle_cvterm"
    /\ op.outcome = "unchanged"
    /\ \E e, f \in tables.cvterm :
          /\ e.id = op.ret
          /\ e.dbxref_id = op.arg.dbxref_id
          /\ e.name # op.arg.name
          /\ f # e
          /\ f.cv_id = op.arg.cv_id
          /\ f.name = op.arg.name


----------------------------------------------------------------------------
(* Claims on the access gate (SpecAccess) *)

\* C29: check_access returns true exactly when the database exists and the
\* task is neither create nor restore, or the database does not exist and the
\* task is create or restore; so it returns false for create and restore on a
\* database that exists and for every other task on one that does not.
C29_AccessGate ==
    access.done =>
        /\ access.result <=>
              \/ access.exists /\ access.task \notin {"create", "restore"}
              \/ ~access.exists /\ access.task \in {"create", "restore"}
        /\ (access.exists /\ access.task \in {"create", "restore"}) => ~access.result
        /\ (~access.exists /\ access.task \notin {"create", "restore"})
              => ~access.result

\* a restore was asked for on a database that an earlier command had created,
\* and check_access has refused it
C29_Witness ==
    /\ access.done
    /\ access.phase = "denied"
    /\ access.task = "restore"
    /\ access.exists
    /\ access.calls > 1
    /\ printed = <<"Database already exists. Overwriting is not permitted.">>

====
